---- MODULE Spec2Model ----
(***************************************************************************)
(* A model of the ride-share front end's two components,                   *)
(* src/frontend/src/components/trips/SearchForm.tsx:                       *)
(*   - SearchForm (lines 21-235): form state, validation on submit, the    *)
(*     debounced live search;                                              *)
(*   - TripCard (lines 272-894): the local trip copy, the join / edit /    *)
(*     delete handlers, their timers, and formatPhoneNumber.               *)
(* Strings are sequences of one-character strings, so that trimming,       *)
(* lower-casing, stripping and slicing are computed and not assumed.       *)
(* Wall-clock time for the date check is in minutes since the epoch;       *)
(* timer time is in milliseconds.                                          *)
(***************************************************************************)
EXTENDS Integers, Sequences, FiniteSets, TLC

VARIABLES
    \* ---- SearchForm ----
    formData,        \* useState<SearchFormData>, line 22
    errors,          \* useState<Partial<SearchFormData>>, line 29
    debounced,       \* pending trailing call of the current debouncedSearch (<<>> or one entry)
    orphaned,        \* pending trailing calls of debounced functions replaced by useCallback
    clock,           \* the browser's clock: [utc |-> minutes since epoch, tz |-> offset in minutes]
    searchLog,       \* the last call the parent's onSearch received: [via, data]
    lastEvent,       \* the handler that ran last and how many onSearch calls it made
    lastInput,       \* the change event handled last: [name, value] of e.target
    quietMs,         \* ms since the last user input on the form (saturates at DEBOUNCE_MS)
    burst            \* the run of edits of from/to of length >= 2, each < 500ms after the
                     \* one before: [len |-> 1, or 2 for two and more, calls |-> onSearch calls since its start]

VARIABLES
    \* ---- TripCard ----
    props,           \* TripCardProps, lines 264-270: [hasOnJoin, showActions]
    localTrip,       \* useState(trip), line 285
    editData,        \* useState({...}), lines 288-295
    isEditModalOpen, \* line 280
    isDeleteModalOpen, \* line 281
    isLoading,       \* line 283
    isAnimating,     \* line 284
    inflight,        \* calls awaited by a handler: [kind, id, trip, fields], trip and fields
                     \* being the localTrip and editData the handler closed over
    animTimers,      \* setTimeout(() => setIsAnimating(false), 1000): ms remaining of each
    deleteTimers,    \* setTimeout(() => onDelete?.(id), 500): [remaining, age, id]
    called,          \* what the step that ran last called: [onUpdate |-> the trip passed to
                     \* the parent's onUpdate, alert |-> the text passed to window.alert]
    onDeleteLog,     \* the parent's onDelete: [count, id]
    apiLog,          \* calls the API has completed: [started, deleted]
    cardEvent,       \* the step of the card that ran last: [op, returned, error]
    \* ---- formatPhoneNumber ----
    phoneNumber,     \* the argument
    phoneText        \* [rendered, text]: the string put on the card

formVars == <<formData, errors, debounced, orphaned, clock, searchLog, lastEvent, lastInput,
              quietMs, burst>>

cardVars == <<props, localTrip, editData, isEditModalOpen, isDeleteModalOpen, isLoading,
              isAnimating, inflight, animTimers, deleteTimers, called, onDeleteLog,
              apiLog, cardEvent>>

phoneVars == <<phoneNumber, phoneText>>

vars == <<formVars, cardVars, phoneVars>>

-----------------------------------------------------------------------------
(* Bounds of the model *)

MaxLen == 2          \* longest location string drawn for the validation inputs
MaxDay == 2          \* days 0..MaxDay+1 are drawn for the date check
MaxOrphans == 1      \* replaced debounced functions with a call still pending
MaxCount == 3        \* the call counters saturate here

(* Program constants *)

DEBOUNCE_MS == 500       \* line 35
FALLBACK_MAX_PRICE == 10000  \* line 90
NoDate == -1             \* departureDate: '' (line 25), no date supplied
MinutesPerDay == 1440    \* Date arithmetic behind lines 63-67

NoError == ""            \* an absent key of the error map
ErrFromRequired == "Departure location is required"
ErrToRequired == "Destination is required"
ErrSameLocation == "Destination must be different from departure location"
ErrPastDate == "Departure date cannot be in the past"
ErrSearchFailed == "Search failed. Please try again."

-----------------------------------------------------------------------------
(* Strings *)

Min(S) == CHOOSE x \in S : \A y \in S : x <= y
Max(S) == CHOOSE x \in S : \A y \in S : x >= y

StringsOver(alphabet, n) == UNION {[1..k -> alphabet] : k \in 0..n}

\* String.prototype.toLowerCase on the characters the inputs use
LowerChar(c) ==
    CASE c = "A" -> "a"
      [] c = "D" -> "d"
      [] OTHER -> c

toLowerCase(s) == [i \in 1..Len(s) |-> LowerChar(s[i])]

\* .replace(/[,\.]/g, '')
IsCommaOrPeriod(c) == c \in {",", "."}
removeCommasPeriods(s) == SelectSeq(s, LAMBDA c : ~IsCommaOrPeriod(c))

\* String.prototype.trim
trim(s) ==
    LET keep == {i \in 1..Len(s) : s[i] # " "}
    IN  IF keep = {} THEN <<>> ELSE SubSeq(s, Min(keep), Max(keep))

normalizeLocation(location) == trim(removeCommasPeriods(toLowerCase(location)))

-----------------------------------------------------------------------------
(* Dates *)

\* new Date('YYYY-MM-DD'): the date-only form is parsed as UTC midnight
ParseDate(day) == day * MinutesPerDay

\* the local calendar day of the clock
LocalDay(clk) == (clk.utc + clk.tz) \div MinutesPerDay

\* new Date(); setHours(0, 0, 0, 0): local midnight of the local day, as an instant
LocalMidnight(clk) == LocalDay(clk) * MinutesPerDay - clk.tz

\* A plausible slip: setUTCHours(0, 0, 0, 0), midnight of the UTC day.
LocalMidnight_utcDay(clk) == (clk.utc \div MinutesPerDay) * MinutesPerDay

-----------------------------------------------------------------------------
(* SearchForm *)

EmptyForm == [from |-> <<>>, to |-> <<>>, departureDate |-> NoDate, maxPrice |-> 0]

NoErrors == [from |-> NoError, to |-> NoError, departureDate |-> NoError, maxPrice |-> NoError]

\* A plausible slip: from and to are compared as typed.
validateForm_rawCompare(fd, clk) ==
    LET e1 == IF trim(fd.from) = <<>> THEN [NoErrors EXCEPT !.from = ErrFromRequired] ELSE NoErrors
        e2 == IF trim(fd.to) = <<>> THEN [e1 EXCEPT !.to = ErrToRequired] ELSE e1
        e3 == IF fd.from = fd.to THEN [e2 EXCEPT !.to = ErrSameLocation] ELSE e2
    IN  IF fd.departureDate # NoDate /\ ParseDate(fd.departureDate) < LocalMidnight(clk)
        THEN [e3 EXCEPT !.departureDate = ErrPastDate] ELSE e3

\* A plausible slip: today is zeroed with setUTCHours.
validateForm_utcToday(fd, clk) ==
    LET e1 == IF trim(fd.from) = <<>> THEN [NoErrors EXCEPT !.from = ErrFromRequired] ELSE NoErrors
        e2 == IF trim(fd.to) = <<>> THEN [e1 EXCEPT !.to = ErrToRequired] ELSE e1
        e3 == IF normalizeLocation(fd.from) = normalizeLocation(fd.to)
              THEN [e2 EXCEPT !.to = ErrSameLocation] ELSE e2
    IN  IF fd.departureDate # NoDate /\ ParseDate(fd.departureDate) < LocalMidnight_utcDay(clk)
        THEN [e3 EXCEPT !.departureDate = ErrPastDate] ELSE e3

\* validateForm, lines 46-74: the error map it builds (newErrors)
validateForm(fd, clk) ==
    LET e1 == IF trim(fd.from) = <<>> THEN [NoErrors EXCEPT !.from = ErrFromRequired] ELSE NoErrors
        e2 == IF trim(fd.to) = <<>> THEN [e1 EXCEPT !.to = ErrToRequired] ELSE e1
        e3 == IF normalizeLocation(fd.from) = normalizeLocation(fd.to)
              THEN [e2 EXCEPT !.to = ErrSameLocation] ELSE e2
    IN  IF fd.departureDate # NoDate /\ ParseDate(fd.departureDate) < LocalMidnight(clk)
        THEN [e3 EXCEPT !.departureDate = ErrPastDate] ELSE e3

\* Object.keys(newErrors).length === 0
IsValid(newErrors) == newErrors = NoErrors

-----------------------------------------------------------------------------
(* The max-price input, lines 113-115 *)

DigitValue(c) ==
    CASE c = "0" -> 0 [] c = "1" -> 1 [] c = "2" -> 2 [] c = "3" -> 3 [] c = "4" -> 4
      [] c = "5" -> 5 [] c = "6" -> 6 [] c = "7" -> 7 [] c = "8" -> 8 [] c = "9" -> 9
      [] OTHER -> -1

IsDigit(c) == DigitValue(c) >= 0

RECURSIVE DigitsToNat(_)
DigitsToNat(ds) ==
    IF ds = <<>> THEN 0
    ELSE 10 * DigitsToNat(SubSeq(ds, 1, Len(ds) - 1)) + DigitValue(ds[Len(ds)])

\* parseInt(value): an optional sign, then the longest run of digits; NaN without one
parseInt(value) ==
    LET negative == value # <<>> /\ value[1] = "-"
        signed   == value # <<>> /\ value[1] \in {"-", "+"}
        rest     == IF signed THEN Tail(value) ELSE value
        stops    == {i \in 1..Len(rest) : ~IsDigit(rest[i])}
        digits   == IF stops = {} THEN rest ELSE SubSeq(rest, 1, Min(stops) - 1)
    IN  IF digits = <<>> THEN [nan |-> TRUE, val |-> 0]
        ELSE [nan |-> FALSE, val |-> IF negative THEN 0 - DigitsToNat(digits) ELSE DigitsToNat(digits)]

\* A plausible slip: the Math.max(0, ...) clamp is left out.
coerceMaxPrice_noClamp(value) ==
    IF value = <<>> THEN 0
    ELSE LET p == parseInt(value)
         IN  IF p.nan THEN 0 ELSE p.val

\* value === '' ? 0 : Math.max(0, parseInt(value) || 0)
coerceMaxPrice(value) ==
    IF value = <<>> THEN 0
    ELSE LET p == parseInt(value)
             n == IF p.nan THEN 0 ELSE p.val
         IN  IF n > 0 THEN n ELSE 0

-----------------------------------------------------------------------------
(* Inputs *)

LocationAlphabet == {"a", "A", ",", ".", " "}
LocationInputs == StringsOver(LocationAlphabet, MaxLen)

\* what is typed while the debounce is observed: "D", "De", "Del" into to, "De" into from
TypedInputs(name) ==
    IF name = "to" THEN {<<"D">>, <<"D", "e">>, <<"D", "e", "l">>} ELSE {<<"D", "e">>}

\* from / to values used while the date and the clock vary
SampleLocations == {<<>>, <<"a">>, <<"b">>}

DateInputs == {NoDate} \cup (0..(MaxDay + 1))

PriceInputs == {<<>>, <<"5">>, <<"-", "5">>, <<"x">>, <<"2", "0">>, <<"7", ".", "5">>}

TzOffsets == {-720, -300, 0, 330, 840}
MinutesOfDay == {0, 1, 720, 1439}
Clocks == {[utc |-> d * MinutesPerDay + m, tz |-> z] :
              d \in 1..MaxDay, m \in MinutesOfDay, z \in TzOffsets}
FixedClock == [utc |-> MinutesPerDay, tz |-> 0]

TickSteps == {250}

FieldNames == {"from", "to", "departureDate", "maxPrice"}

-----------------------------------------------------------------------------
(* History kept for the properties *)

Bump(n) == IF n < MaxCount THEN n + 1 ELSE n

NoSearch == [via |-> "none", data |-> EmptyForm]

Searched(via, data) == [via |-> via, data |-> data]

NoBurst == [len |-> 0, calls |-> 0]

NoInput == [name |-> "none", value |-> <<>>]

-----------------------------------------------------------------------------
(* SearchForm handlers *)

\* handleSubmit, lines 76-99. onSearch is the parent's: it may throw.
HandleSubmit ==
    LET newErrors == validateForm(formData, clock)
        searchData == [from |-> trim(formData.from),
                       to |-> trim(formData.to),
                       departureDate |-> formData.departureDate,
                       maxPrice |-> IF formData.maxPrice # 0 THEN formData.maxPrice
                                    ELSE FALLBACK_MAX_PRICE]
    IN  /\ IF ~IsValid(newErrors)
           THEN /\ errors' = newErrors
                /\ searchLog' = searchLog
                /\ lastEvent' = [op |-> "submit", searched |-> 0]
           ELSE \E throws \in BOOLEAN :
                /\ errors' = IF throws THEN [newErrors EXCEPT !.from = ErrSearchFailed]
                             ELSE newErrors
                /\ searchLog' = Searched("submit", searchData)
                /\ lastEvent' = [op |-> "submit", searched |-> 1]
        /\ quietMs' = 0
        /\ burst' = NoBurst
        /\ UNCHANGED <<formData, debounced, orphaned, clock, lastInput, cardVars, phoneVars>>

\* the new field value of handleChange, lines 113-115
NewFieldValue(name, value) == IF name = "maxPrice" THEN coerceMaxPrice(value) ELSE value

\* debouncedSearch(newFormData): the trailing call is (re)scheduled DEBOUNCE_MS ahead
Schedule(args) == <<[remaining |-> DEBOUNCE_MS, args |-> args]>>

\* handleChange, lines 101-124; a change event carries a value other than the field's
HandleChange(name, value) ==
    LET newFormData == [formData EXCEPT ![name] = NewFieldValue(name, value)]
        searches == name \in {"from", "to"} /\ Len(value) >= 2
    IN  /\ IF name = "maxPrice" THEN TRUE ELSE value # formData[name]
        /\ errors' = IF errors[name] # NoError THEN [errors EXCEPT ![name] = NoError] ELSE errors
        /\ formData' = newFormData
        /\ debounced' = IF searches THEN Schedule(newFormData) ELSE debounced
        /\ burst' = IF ~searches THEN NoBurst
                    ELSE IF burst.len > 0 /\ quietMs < DEBOUNCE_MS
                         THEN [burst EXCEPT !.len = 2]
                         ELSE [len |-> 1, calls |-> 0]
        /\ quietMs' = 0
        /\ lastEvent' = [op |-> "change", searched |-> 0]
        /\ lastInput' = [name |-> name, value |-> value]
        /\ UNCHANGED <<orphaned, clock, searchLog, cardVars, phoneVars>>

\* handleReset, lines 127-135
HandleReset ==
    /\ formData' = EmptyForm
    /\ errors' = NoErrors
    /\ quietMs' = 0
    /\ burst' = NoBurst
    /\ lastEvent' = [op |-> "reset", searched |-> 0]
    /\ UNCHANGED <<debounced, orphaned, clock, searchLog, lastInput, cardVars, phoneVars>>

\* the trailing edge of the current debounced function: onSearch(searchData), lines 33-35
DebounceFire ==
    /\ debounced # <<>>
    /\ debounced[1].remaining = 0
    /\ searchLog' = Searched("debounce", debounced[1].args)
    /\ debounced' = <<>>
    /\ burst' = IF burst.len > 0 THEN [burst EXCEPT !.calls = Bump(burst.calls)] ELSE burst
    /\ lastEvent' = [op |-> "debounce", searched |-> 1]
    /\ UNCHANGED <<formData, errors, orphaned, clock, lastInput, quietMs, cardVars, phoneVars>>

\* the trailing edge of a debounced function that useCallback has replaced: its timer
\* was never cancelled, and it calls the onSearch it closed over
OrphanFire ==
    \E i \in 1..Len(orphaned) :
        /\ orphaned[i].remaining = 0
        /\ searchLog' = Searched("debounce", orphaned[i].args)
        /\ orphaned' = SubSeq(orphaned, 1, i - 1) \o SubSeq(orphaned, i + 1, Len(orphaned))
        /\ burst' = IF burst.len > 0 THEN [burst EXCEPT !.calls = Bump(burst.calls)] ELSE burst
        /\ lastEvent' = [op |-> "debounce", searched |-> 1]
        /\ UNCHANGED <<formData, errors, debounced, clock, lastInput, quietMs, cardVars,
                       phoneVars>>

\* The parent re-renders with another onSearch function: the dependency list
\* [onSearch] (line 36) makes useCallback return the debounce(...) built in this
\* render; the one it replaces keeps its pending timer.
OnSearchChanged ==
    /\ debounced # <<>>
    /\ Len(orphaned) < MaxOrphans
    /\ orphaned' = orphaned \o debounced
    /\ debounced' = <<>>
    /\ UNCHANGED <<formData, errors, clock, searchLog, lastEvent, lastInput, quietMs, burst,
                   cardVars, phoneVars>>

AllTimers == debounced \o orphaned

Elapse(timers, dt) == [i \in 1..Len(timers) |-> [timers[i] EXCEPT !.remaining = @ - dt]]

\* time passes; a timer that is due fires before time moves on
FormTick ==
    \E dt \in TickSteps :
        /\ \A i \in 1..Len(AllTimers) : AllTimers[i].remaining >= dt
        /\ AllTimers # <<>> \/ quietMs < DEBOUNCE_MS
        /\ debounced' = Elapse(debounced, dt)
        /\ orphaned' = Elapse(orphaned, dt)
        /\ quietMs' = IF quietMs + dt < DEBOUNCE_MS THEN quietMs + dt ELSE DEBOUNCE_MS
        /\ UNCHANGED <<formData, errors, clock, searchLog, lastEvent, lastInput, burst,
                       cardVars, phoneVars>>

-----------------------------------------------------------------------------
(* TripCard: the trip, the roles (lines 297-300) *)

MaxSeats == 2        \* maxPassengers ranges over 1..MaxSeats
MaxCalls == 2        \* join / update / delete calls one card starts

UserId == "u1"           \* useAuth().user.id, line 279
OtherUserId == "u2"      \* another user's id
ANIMATION_MS == 1000     \* lines 355, 366, 384
DELETE_DELAY_MS == 500   \* line 400

TripIds == {7, 8}
Places == {"Pune", "Goa"}
Roles == {"driver", "passenger", "none"}
ErrorMessages == {"Trip is full", "Network Error"}
CardTickSteps == {500}

\* Trip (the fields the handlers read or write; to, departureTime, pricePerPerson and
\* description are carried like from)
Trips == [id : TripIds, from : Places, maxPassengers : 1..MaxSeats,
          currentPassengers : 0..MaxSeats, driverId : {UserId, OtherUserId}, userRole : Roles]

isOwner == UserId = localTrip.driverId \/ localTrip.userRole = "driver"
isPassenger == localTrip.userRole = "passenger"

\* A plausible slip: the capacity test is left out.
canJoin_ignoreCapacity == ~isOwner /\ ~isPassenger

\* A plausible slip: the capacity is compared with <=.
canJoin_atCapacity ==
    ~isOwner /\ ~isPassenger /\ localTrip.currentPassengers <= localTrip.maxPassengers

canJoin == ~isOwner /\ ~isPassenger /\ localTrip.currentPassengers < localTrip.maxPassengers
isFull == localTrip.currentPassengers >= localTrip.maxPassengers

\* {canJoin && showActions && (<Button onClick={handleJoin} .../>)}, lines 524-533
JoinControlRendered == canJoin /\ props.showActions

\* the initial editData, lines 288-295
EditDataOf(trip) == [from_location |-> trip.from, max_passengers |-> trip.maxPassengers]

NoTrip == [id |-> 0, from |-> "", maxPassengers |-> 0, currentPassengers |-> 0,
           driverId |-> "", userRole |-> "none"]

NoneCalled == [onUpdate |-> NoTrip, alert |-> ""]

\* a step of the card: what ran, and what the API answered it (a trip, or an error)
Event(op, returned, error) == [op |-> op, returned |-> returned, error |-> error]
UiEvent(op) == Event(op, NoTrip, "")

Without(seq, i) == SubSeq(seq, 1, i - 1) \o SubSeq(seq, i + 1, Len(seq))

\* A plausible slip: handleEdit does not set the loading flag.
LoadingWhileAwaiting_editUnset(kind) == kind # "updateTrip"

\* setIsLoading(true) ahead of every await, lines 347, 362, 376, 393
LoadingWhileAwaiting(kind) == TRUE

\* a handler sets isLoading and awaits its call (lines 347-349, 362-364, 376-378, 393-395)
Await(kind) ==
    /\ apiLog.started < MaxCalls
    /\ isLoading' = LoadingWhileAwaiting(kind)
    /\ inflight' = Append(inflight, [kind |-> kind, id |-> localTrip.id,
                                     trip |-> localTrip, fields |-> editData])
    /\ apiLog' = [apiLog EXCEPT !.started = @ + 1]
    /\ cardEvent' = UiEvent(kind)
    /\ called' = NoneCalled

\* setIsAnimating(true); setTimeout(() => setIsAnimating(false), 1000)
Animate ==
    /\ isAnimating' = TRUE
    /\ animTimers' = Append(animTimers, ANIMATION_MS)

\* onUpdate?.(updatedTrip)
OnUpdate(trip) == called' = [onUpdate |-> trip, alert |-> ""]

\* alert(error.message)
Alert(msg) == called' = [onUpdate |-> NoTrip, alert |-> msg]

-----------------------------------------------------------------------------
(* TripCard: join, lines 345-373 *)

\* the Join button, lines 524-533: rendered when canJoin && showActions, disabled by isLoading
HandleJoin ==
    /\ JoinControlRendered
    /\ ~isLoading
    /\ Await(IF props.hasOnJoin THEN "onJoin" ELSE "joinTrip")
    /\ UNCHANGED <<formVars, phoneVars, props, localTrip, editData, isEditModalOpen,
                   isDeleteModalOpen, isAnimating, animTimers, deleteTimers, onDeleteLog>>

\* A plausible slip: the occupancy is taken from the capacity.
JoinedTrip_fill(trip) == [trip EXCEPT !.currentPassengers = trip.maxPassengers]

\* the trip handleJoin stores after joinTrip resolves, line 350
JoinedTrip(trip) == [trip EXCEPT !.currentPassengers = @ + 1]

\* await joinTrip(localTrip.id) resolved, lines 350-355 and 359
JoinTripOk ==
    \E i \in 1..Len(inflight) :
        /\ inflight[i].kind = "joinTrip"
        /\ localTrip' = JoinedTrip(inflight[i].trip)
        /\ OnUpdate(localTrip')
        /\ Animate
        /\ isLoading' = FALSE
        /\ inflight' = Without(inflight, i)
        /\ cardEvent' = UiEvent("joinTripOk")
        /\ UNCHANGED <<formVars, phoneVars, props, editData, isEditModalOpen,
                       isDeleteModalOpen, deleteTimers, onDeleteLog, apiLog>>

\* A plausible slip: the onJoin path increments the occupancy as the direct path does.
TripAfterOnJoin_incremented(trip) == [trip EXCEPT !.currentPassengers = @ + 1]

\* the local trip once onJoin has resolved: lines 364-366 call no setLocalTrip
TripAfterOnJoin(trip) == trip

\* await onJoin(localTrip.id) resolved, lines 365-366 and 370
OnJoinOk ==
    \E i \in 1..Len(inflight) :
        /\ inflight[i].kind = "onJoin"
        /\ localTrip' = TripAfterOnJoin(localTrip)
        /\ Animate
        /\ isLoading' = FALSE
        /\ inflight' = Without(inflight, i)
        /\ cardEvent' = UiEvent("onJoinOk")
        /\ called' = NoneCalled
        /\ UNCHANGED <<formVars, phoneVars, props, editData, isEditModalOpen,
                       isDeleteModalOpen, deleteTimers, onDeleteLog, apiLog>>

FailedOp(kind) ==
    CASE kind = "joinTrip" -> "joinTripFailed"
      [] kind = "onJoin" -> "onJoinFailed"
      [] kind = "updateTrip" -> "updateTripFailed"
      [] kind = "deleteTrip" -> "deleteTripFailed"

\* A plausible slip: handleDelete's catch forgets setIsLoading(false).
LoadingAfterFailure_deleteStuck(kind) == kind = "deleteTrip"

\* what a failed call leaves of the loading flag (finally, lines 358-360, 369-371, 387-389;
\* the catch block, line 403)
LoadingAfterFailure(kind) == FALSE

\* a call rejected: catch (error) { alert(error.message) }, lines 356-360, 367-371,
\* 385-389, 401-404
CallFailed ==
    \E i \in 1..Len(inflight), msg \in ErrorMessages :
        /\ Alert(msg)
        /\ isLoading' = LoadingAfterFailure(inflight[i].kind)
        /\ inflight' = Without(inflight, i)
        /\ cardEvent' = Event(FailedOp(inflight[i].kind), NoTrip, msg)
        /\ UNCHANGED <<formVars, phoneVars, props, localTrip, editData, isEditModalOpen,
                       isDeleteModalOpen, isAnimating, animTimers, deleteTimers, onDeleteLog,
                       apiLog>>

-----------------------------------------------------------------------------
(* TripCard: edit, lines 375-390 and the modal, lines 755-856 *)

\* the Edit button, lines 447-455
OpenEditModal ==
    /\ isOwner /\ props.showActions /\ ~isLoading
    /\ ~isEditModalOpen
    /\ isEditModalOpen' = TRUE
    /\ cardEvent' = UiEvent("ui")
    /\ called' = NoneCalled
    /\ UNCHANGED <<formVars, phoneVars, props, localTrip, editData, isDeleteModalOpen,
                   isLoading, isAnimating, inflight, animTimers, deleteTimers, onDeleteLog,
                   apiLog>>

\* Cancel, or the modal's onClose, lines 757 and 848
CloseEditModal ==
    /\ isEditModalOpen
    /\ isEditModalOpen' = FALSE
    /\ cardEvent' = UiEvent("ui")
    /\ called' = NoneCalled
    /\ UNCHANGED <<formVars, phoneVars, props, localTrip, editData, isDeleteModalOpen,
                   isLoading, isAnimating, inflight, animTimers, deleteTimers, onDeleteLog,
                   apiLog>>

\* the modal's inputs, lines 768 and 807
SetEditData(field, value) ==
    /\ isEditModalOpen
    /\ editData[field] # value
    /\ editData' = [editData EXCEPT ![field] = value]
    /\ cardEvent' = UiEvent("ui")
    /\ called' = NoneCalled
    /\ UNCHANGED <<formVars, phoneVars, props, localTrip, isEditModalOpen, isDeleteModalOpen,
                   isLoading, isAnimating, inflight, animTimers, deleteTimers, onDeleteLog,
                   apiLog>>

\* Update Trip, lines 840-846: disabled by isLoading
HandleEdit ==
    /\ isEditModalOpen
    /\ ~isLoading
    /\ Await("updateTrip")
    /\ UNCHANGED <<formVars, phoneVars, props, localTrip, editData, isEditModalOpen,
                   isDeleteModalOpen, isAnimating, animTimers, deleteTimers, onDeleteLog>>

\* what the server may answer an update with: its own representation of that trip
\* (any route and capacity; the occupancy the card knows; the role kept or left out)
ServerTrips(call) ==
    {t \in Trips : /\ t.id = call.id
                   /\ t.driverId = call.trip.driverId
                   /\ t.currentPassengers = call.trip.currentPassengers
                   /\ t.userRole \in {call.trip.userRole, "none"}}

\* A plausible slip: the edited fields are merged into the local trip.
EditedTrip_fromFields(call, returned) ==
    [call.trip EXCEPT !.from = call.fields.from_location,
                      !.maxPassengers = call.fields.max_passengers]

\* the trip handleEdit stores, line 379
EditedTrip(call, returned) == returned

\* await updateTrip(localTrip.id, editData) resolved, lines 379-384 and 388
UpdateTripOk ==
    \E i \in 1..Len(inflight) : \E returned \in ServerTrips(inflight[i]) :
        /\ inflight[i].kind = "updateTrip"
        /\ localTrip' = EditedTrip(inflight[i], returned)
        /\ OnUpdate(localTrip')
        /\ isEditModalOpen' = FALSE
        /\ Animate
        /\ isLoading' = FALSE
        /\ inflight' = Without(inflight, i)
        /\ cardEvent' = Event("updateTripOk", returned, "")
        /\ UNCHANGED <<formVars, phoneVars, props, editData, isDeleteModalOpen, deleteTimers,
                       onDeleteLog, apiLog>>

-----------------------------------------------------------------------------
(* TripCard: delete, lines 392-405 and the modal, lines 859-891 *)

\* the Delete button, lines 456-462
OpenDeleteModal ==
    /\ isOwner /\ props.showActions /\ ~isLoading
    /\ ~isDeleteModalOpen
    /\ isDeleteModalOpen' = TRUE
    /\ cardEvent' = UiEvent("ui")
    /\ called' = NoneCalled
    /\ UNCHANGED <<formVars, phoneVars, props, localTrip, editData, isEditModalOpen, isLoading,
                   isAnimating, inflight, animTimers, deleteTimers, onDeleteLog, apiLog>>

\* Cancel, or the modal's onClose, lines 861 and 883
CloseDeleteModal ==
    /\ isDeleteModalOpen
    /\ isDeleteModalOpen' = FALSE
    /\ cardEvent' = UiEvent("ui")
    /\ called' = NoneCalled
    /\ UNCHANGED <<formVars, phoneVars, props, localTrip, editData, isEditModalOpen, isLoading,
                   isAnimating, inflight, animTimers, deleteTimers, onDeleteLog, apiLog>>

\* Delete Trip, lines 875-881: disabled by isLoading
HandleDelete ==
    /\ isDeleteModalOpen
    /\ ~isLoading
    /\ Await("deleteTrip")
    /\ UNCHANGED <<formVars, phoneVars, props, localTrip, editData, isEditModalOpen,
                   isDeleteModalOpen, isAnimating, animTimers, deleteTimers, onDeleteLog>>

\* A plausible slip: the parent is told at once.
DeleteTimer_noDelay(call) == [remaining |-> 0, age |-> 0, id |-> call.trip.id]

\* setTimeout(() => { onDelete?.(localTrip.id) }, 500), lines 398-400
DeleteTimer(call) == [remaining |-> DELETE_DELAY_MS, age |-> 0, id |-> call.trip.id]

\* await deleteTrip(localTrip.id) resolved, lines 397-400; isLoading stays set
DeleteTripOk ==
    \E i \in 1..Len(inflight) :
        /\ inflight[i].kind = "deleteTrip"
        /\ isAnimating' = TRUE
        /\ deleteTimers' = Append(deleteTimers, DeleteTimer(inflight[i]))
        /\ inflight' = Without(inflight, i)
        /\ apiLog' = [apiLog EXCEPT !.deleted = @ + 1]
        /\ cardEvent' = UiEvent("deleteTripOk")
        /\ called' = NoneCalled
        /\ UNCHANGED <<formVars, phoneVars, props, localTrip, editData, isEditModalOpen,
                       isDeleteModalOpen, isLoading, animTimers, onDeleteLog>>

\* the 500ms timer of handleDelete: onDelete?.(localTrip.id), line 399
DeleteTimerFire ==
    \E i \in 1..Len(deleteTimers) :
        /\ deleteTimers[i].remaining = 0
        /\ onDeleteLog' = [count |-> onDeleteLog.count + 1, id |-> deleteTimers[i].id]
        /\ deleteTimers' = Without(deleteTimers, i)
        /\ cardEvent' = UiEvent("ui")
        /\ called' = NoneCalled
        /\ UNCHANGED <<formVars, phoneVars, props, localTrip, editData, isEditModalOpen,
                       isDeleteModalOpen, isLoading, isAnimating, inflight, animTimers, apiLog>>

\* the 1000ms timer of a successful join or edit: setIsAnimating(false)
AnimTimerFire ==
    \E i \in 1..Len(animTimers) :
        /\ animTimers[i] = 0
        /\ isAnimating' = FALSE
        /\ animTimers' = Without(animTimers, i)
        /\ cardEvent' = UiEvent("ui")
        /\ called' = NoneCalled
        /\ UNCHANGED <<formVars, phoneVars, props, localTrip, editData, isEditModalOpen,
                       isDeleteModalOpen, isLoading, inflight, deleteTimers, onDeleteLog,
                       apiLog>>

\* time passes on the card; a timer that is due fires before time moves on
CardTick ==
    \E dt \in CardTickSteps :
        /\ animTimers # <<>> \/ deleteTimers # <<>>
        /\ \A i \in 1..Len(animTimers) : animTimers[i] >= dt
        /\ \A i \in 1..Len(deleteTimers) : deleteTimers[i].remaining >= dt
        /\ animTimers' = [i \in 1..Len(animTimers) |-> animTimers[i] - dt]
        /\ deleteTimers' = [i \in 1..Len(deleteTimers) |->
                               [deleteTimers[i] EXCEPT !.remaining = @ - dt, !.age = @ + dt]]
        /\ UNCHANGED <<formVars, phoneVars, props, localTrip, editData, isEditModalOpen,
                       isDeleteModalOpen, isLoading, isAnimating, inflight, onDeleteLog,
                       apiLog, cardEvent, called>>

NextCard ==
    \/ HandleJoin
    \/ JoinTripOk
    \/ OnJoinOk
    \/ CallFailed
    \/ OpenEditModal
    \/ CloseEditModal
    \/ \E v \in Places : SetEditData("from_location", v)
    \/ HandleEdit
    \/ UpdateTripOk
    \/ OpenDeleteModal
    \/ CloseDeleteModal
    \/ HandleDelete
    \/ DeleteTripOk
    \/ DeleteTimerFire
    \/ AnimTimerFire
    \/ CardTick

\* the state of a card built from the trip prop, lines 279-295
CardOf(trip, p) ==
    /\ props = p
    /\ localTrip = trip
    /\ editData = EditDataOf(trip)
    /\ isEditModalOpen = FALSE
    /\ isDeleteModalOpen = FALSE
    /\ isLoading = FALSE
    /\ isAnimating = FALSE
    /\ inflight = <<>>
    /\ animTimers = <<>>
    /\ deleteTimers = <<>>
    /\ called = NoneCalled
    /\ onDeleteLog = [count |-> 0, id |-> 0]
    /\ apiLog = [started |-> 0, deleted |-> 0]
    /\ cardEvent = UiEvent("init")

\* the trips a card is built from: trip 7 from Pune with MaxSeats seats, empty to full,
\* the user its driver, a passenger of it or neither
InitCard ==
    \E trip \in Trips, p \in [hasOnJoin : BOOLEAN, showActions : BOOLEAN] :
        /\ trip.id = 7 /\ trip.from = "Pune"
        /\ trip.maxPassengers = MaxSeats
        /\ CardOf(trip, p)

-----------------------------------------------------------------------------
(* formatPhoneNumber, lines 303-319 *)

NATIONAL_DIGITS == 10    \* lines 308, 312-314
GROUP_DIGITS == 5        \* lines 309, 315

\* Array/String.prototype.slice(start, end): negative indexes count from the end
SliceIndex(s, i) ==
    IF i < 0 THEN (IF Len(s) + i < 0 THEN 0 ELSE Len(s) + i)
    ELSE (IF i > Len(s) THEN Len(s) ELSE i)

slice(s, start, end) == SubSeq(s, SliceIndex(s, start) + 1, SliceIndex(s, end))

\* slice(start): to the end of the string
sliceFrom(s, start) == SubSeq(s, SliceIndex(s, start) + 1, Len(s))

\* phoneNumber.replace(/\D/g, '')
removeNonDigits(s) == SelectSeq(s, IsDigit)

\* A plausible slip: the country code is cut from the end and the number from the front.
formatPhoneNumber_swappedSlices(number) ==
    LET cleaned == removeNonDigits(number)
    IN  IF number = <<>> THEN <<>>
        ELSE IF Len(cleaned) = NATIONAL_DIGITS
        THEN <<"+", "9", "1", " ">> \o slice(cleaned, 0, GROUP_DIGITS) \o <<" ">>
                 \o sliceFrom(cleaned, GROUP_DIGITS)
        ELSE IF Len(cleaned) > NATIONAL_DIGITS
        THEN LET countryCode == sliceFrom(cleaned, NATIONAL_DIGITS)
                 national == slice(cleaned, 0, NATIONAL_DIGITS)
             IN  <<"+">> \o countryCode \o <<" ">> \o slice(national, 0, GROUP_DIGITS) \o <<" ">>
                     \o sliceFrom(national, GROUP_DIGITS)
        ELSE number

formatPhoneNumber(number) ==
    LET cleaned == removeNonDigits(number)
    IN  IF number = <<>> THEN <<>>
        ELSE IF Len(cleaned) = NATIONAL_DIGITS
        THEN <<"+", "9", "1", " ">> \o slice(cleaned, 0, GROUP_DIGITS) \o <<" ">>
                 \o sliceFrom(cleaned, GROUP_DIGITS)
        ELSE IF Len(cleaned) > NATIONAL_DIGITS
        THEN LET countryCode == slice(cleaned, 0, 0 - NATIONAL_DIGITS)
                 national == sliceFrom(cleaned, 0 - NATIONAL_DIGITS)
             IN  <<"+">> \o countryCode \o <<" ">> \o slice(national, 0, GROUP_DIGITS) \o <<" ">>
                     \o sliceFrom(national, GROUP_DIGITS)
        ELSE number

\* the phone numbers a card is given: a country code (or none), the first digits of a
\* subscriber number, written with or without a leading +, with or without one separator
SubscriberDigits == <<"9", "8", "7", "6", "5", "4", "3", "2", "1", "0">>
CountryCodes == {<<>>, <<"1">>, <<"9", "1">>, <<"4", "4", "7">>}
Separators == {" ", "-"}
SubscriberLengths == {7, 8, 9, 10}

BarePhones ==
    {cc \o SubSeq(SubscriberDigits, 1, k) :
        cc \in CountryCodes, k \in SubscriberLengths}

InsertAt(s, i, c) == SubSeq(s, 1, i) \o <<c>> \o SubSeq(s, i + 1, Len(s))

PhoneInputs ==
    {<<>>} \cup BarePhones
    \cup {<<"+">> \o d : d \in BarePhones}
    \cup {InsertAt(d, i, c) : d \in BarePhones, i \in {2, 5}, c \in Separators}

\* {formatPhoneNumber(...)} in the card, lines 563, 577, 628, 687
RenderPhone ==
    /\ ~phoneText.rendered
    /\ phoneText' = [rendered |-> TRUE, text |-> formatPhoneNumber(phoneNumber)]
    /\ UNCHANGED <<phoneNumber, formVars, cardVars>>

InitPhone ==
    /\ phoneNumber \in PhoneInputs
    /\ phoneText = [rendered |-> FALSE, text |-> <<>>]

-----------------------------------------------------------------------------
(* Specifications *)

\* the state after construction, lines 22-29
InitForm ==
    /\ formData = EmptyForm
    /\ errors = NoErrors
    /\ debounced = <<>>
    /\ orphaned = <<>>
    /\ clock = FixedClock
    /\ searchLog = NoSearch
    /\ lastEvent = [op |-> "init", searched |-> 0]
    /\ lastInput = NoInput
    /\ quietMs = DEBOUNCE_MS
    /\ burst = NoBurst

\* a form as the edits leave it, every timer expired: the inputs of a submit
InitSubmit ==
    /\ \/ /\ formData \in [from : LocationInputs, to : LocationInputs,
                           departureDate : {NoDate}, maxPrice : {0, 20}]
          /\ clock = FixedClock
       \/ /\ formData \in [from : SampleLocations, to : SampleLocations,
                           departureDate : DateInputs, maxPrice : {0}]
          /\ clock \in Clocks
    /\ errors = NoErrors
    /\ debounced = <<>>
    /\ orphaned = <<>>
    /\ searchLog = NoSearch
    /\ lastEvent = [op |-> "init", searched |-> 0]
    /\ lastInput = NoInput
    /\ quietMs = DEBOUNCE_MS
    /\ burst = NoBurst

\* a component that is on the page and left alone
IdleCard ==
    CardOf([id |-> 7, from |-> "Pune", maxPassengers |-> 1, currentPassengers |-> 0,
            driverId |-> OtherUserId, userRole |-> "none"],
           [hasOnJoin |-> FALSE, showActions |-> TRUE])
IdlePhone == phoneNumber = <<>> /\ phoneText = [rendered |-> FALSE, text |-> <<>>]

InitSubmitOnly == InitSubmit /\ IdleCard /\ IdlePhone
InitFormOnly == InitForm /\ IdleCard /\ IdlePhone

\* the submit path of the SearchForm, on every form it can be given
NextSubmit ==
    \/ HandleSubmit
    \/ HandleReset

SpecSubmit == InitSubmitOnly /\ [][NextSubmit]_vars

\* typing into from / to, the debounce timers, the parent's re-renders
NextDebounce ==
    \/ \E name \in {"from", "to"} : \E value \in TypedInputs(name) : HandleChange(name, value)
    \/ DebounceFire
    \/ OrphanFire
    \/ OnSearchChanged
    \/ FormTick
    \/ HandleSubmit
    \/ HandleReset

SpecDebounce == InitFormOnly /\ [][NextDebounce]_vars

\* the max-price field: a route of one-letter places (too short for the live search),
\* a typed price, submit and reset
NextPrice ==
    \/ \E value \in PriceInputs : HandleChange("maxPrice", value)
    \/ \E name \in {"from", "to"} : \E value \in SampleLocations : HandleChange(name, value)
    \/ HandleSubmit
    \/ HandleReset

SpecPrice == InitFormOnly /\ [][NextPrice]_vars

\* one TripCard, from every trip and every set of props it can be built with
InitCardOnly == InitForm /\ InitCard /\ IdlePhone

SpecCard == InitCardOnly /\ [][NextCard]_vars

\* the browser runs its timers: time passes and a timer that is due fires
CardFairness ==
    /\ WF_vars(CardTick)
    /\ WF_vars(AnimTimerFire)
    /\ WF_vars(DeleteTimerFire)

SpecCardLive == InitCardOnly /\ [][NextCard]_vars /\ CardFairness

\* formatPhoneNumber on the phone numbers a card renders
InitPhoneOnly == InitForm /\ IdleCard /\ InitPhone

NextPhone == RenderPhone

SpecPhone == InitPhoneOnly /\ [][NextPhone]_vars

\* the page: a SearchForm and a TripCard
Init == InitForm /\ InitCard /\ InitPhone

Next ==
    \/ \E name \in FieldNames :
           \E value \in (IF name = "maxPrice" THEN PriceInputs
                         ELSE IF name = "departureDate" THEN DateInputs
                         ELSE TypedInputs(name)) : HandleChange(name, value)
    \/ NextDebounce
    \/ NextCard
    \/ RenderPhone

Spec == Init /\ [][Next]_vars

-----------------------------------------------------------------------------
(* Properties of the SearchForm *)

\* C1: a submit with from or to empty after trimming records the required-field
\* error of each such field ('Departure location is required' under from,
\* 'Destination is required' under to) and makes no onSearch call.
C1_RequiredFieldErrors ==
    lastEvent.op = "submit" =>
        /\ trim(formData.from) = <<>> => errors.from = ErrFromRequired
        /\ trim(formData.to) = <<>> => errors.to = ErrToRequired
        /\ (trim(formData.from) = <<>> \/ trim(formData.to) = <<>>) => lastEvent.searched = 0

\* C2: a submit whose from and to are the same string after normalization
\* (lower-cased, commas and periods removed, trimmed) records the
\* destination-mismatch error under to and makes no onSearch call.
C2_SameLocationRejected ==
    (lastEvent.op = "submit" /\ normalizeLocation(formData.from) = normalizeLocation(formData.to))
        => (errors.to = ErrSameLocation /\ lastEvent.searched = 0)

\* from and to differ as typed, name the same place, and the submit rejected them
C2_Witness ==
    /\ lastEvent.op = "submit"
    /\ formData.from # formData.to
    /\ toLowerCase(formData.from) # toLowerCase(formData.to)
    /\ normalizeLocation(formData.from) = normalizeLocation(formData.to)
    /\ normalizeLocation(formData.from) # <<>>
    /\ errors.to = ErrSameLocation

\* C3: a submit whose departure date is a calendar day strictly before the
\* current local calendar day records the past-date error and makes no
\* onSearch call, at every time of day and every time-zone offset.
C3_PastDateRejected ==
    (/\ lastEvent.op = "submit"
     /\ formData.departureDate # NoDate
     /\ formData.departureDate < LocalDay(clock))
        => (errors.departureDate = ErrPastDate /\ lastEvent.searched = 0)

\* yesterday (local) was submitted with a valid route, east of Greenwich at an hour
\* when the local day is already ahead of the UTC day: the date alone rejects it
C3_Witness ==
    /\ lastEvent.op = "submit"
    /\ formData.departureDate # NoDate
    /\ formData.departureDate = LocalDay(clock) - 1
    /\ clock.tz > 0
    /\ LocalDay(clock) > clock.utc \div MinutesPerDay
    /\ errors = [NoErrors EXCEPT !.departureDate = ErrPastDate]

\* C4: once a run of one or more edits of from/to of length >= 2, each less
\* than 500ms after the one before, has been followed by 500ms without input
\* (and every timer that is due has fired), onSearch has been called exactly
\* once since the run began, with the form snapshot of the last edit.
C4_OneCallPerBurst ==
    (burst.len >= 1 /\ quietMs >= DEBOUNCE_MS /\ AllTimers = <<>>)
        => (burst.calls = 1 /\ searchLog = [via |-> "debounce", data |-> formData])

-----------------------------------------------------------------------------
(* Properties of formatPhoneNumber *)

DecimalDigits == {"0", "1", "2", "3", "4", "5", "6", "7", "8", "9"}

\* C5: with d the digits of the input and n their number, the card shows
\* '+91 d1..d5 d6..d10' when n = 10, '+' the leading n-10 digits, a space and the
\* last 10 digits grouped 5+5 when n > 10, and the input unchanged otherwise; a
\* 10-digit number and the same number prefixed with 91 give the same text.
C5_PhoneFormat ==
    phoneText.rendered =>
        LET d == SelectSeq(phoneNumber, LAMBDA c : c \in DecimalDigits)
            n == Len(d)
        IN  /\ phoneText.text =
                  IF n = 10
                  THEN <<"+", "9", "1", " ">> \o SubSeq(d, 1, 5) \o <<" ">> \o SubSeq(d, 6, 10)
                  ELSE IF n > 10
                  THEN <<"+">> \o SubSeq(d, 1, n - 10) \o <<" ">> \o SubSeq(d, n - 9, n - 5)
                           \o <<" ">> \o SubSeq(d, n - 4, n)
                  ELSE phoneNumber
            /\ n = 10 => formatPhoneNumber(<<"9", "1">> \o d) = phoneText.text

\* +91-9876543210, twelve digits behind a plus and a separator, is shown as +91 98765 43210
C5_Witness ==
    /\ phoneText.rendered
    /\ Len(SelectSeq(phoneNumber, LAMBDA c : c \in DecimalDigits)) = 12
    /\ Len(phoneNumber) > 12
    /\ phoneText.text = <<"+", "9", "1", " ", "9", "8", "7", "6", "5", " ", "4", "3", "2", "1", "0">>

-----------------------------------------------------------------------------
(* Properties of the TripCard *)

IsJoin(call) == call.kind \in {"joinTrip", "onJoin"}

\* the step is a handler starting the call `kind`
Started(kind) == cardEvent'.op = kind /\ Len(inflight') = Len(inflight) + 1

\* the step is the completion `op` of a call in flight
Completed(op) == cardEvent'.op = op /\ Len(inflight') = Len(inflight) - 1

FailedOps == {"joinTripFailed", "onJoinFailed", "updateTripFailed", "deleteTripFailed"}

\* C6: canJoin is false whenever isOwner, isPassenger or currentPassengers >=
\* maxPassengers holds; the join control is rendered only when canJoin holds; every
\* join in flight was started from a card with occupancy below capacity.
C6_JoinOnlyBelowCapacity ==
    /\ (isOwner \/ isPassenger \/ localTrip.currentPassengers >= localTrip.maxPassengers)
           => ~canJoin
    /\ JoinControlRendered => canJoin
    /\ \A i \in 1..Len(inflight) :
           IsJoin(inflight[i]) =>
               inflight[i].trip.currentPassengers < inflight[i].trip.maxPassengers

\* a join is in flight that was started with one seat left
C6_Witness ==
    \E i \in 1..Len(inflight) :
        /\ IsJoin(inflight[i])
        /\ inflight[i].trip.currentPassengers + 1 = inflight[i].trip.maxPassengers
        /\ inflight[i].trip.currentPassengers > 0

\* C7: without an injected onJoin, a joinTrip call that succeeds leaves the local
\* trip as it was with currentPassengers one above its value when the join was
\* started, and passes that same trip to onUpdate.
C7_JoinAddsOne ==
    [][Completed("joinTripOk") =>
          /\ localTrip' = [localTrip EXCEPT !.currentPassengers = @ + 1]
          /\ \A i \in 1..Len(inflight) :
                 inflight[i].kind = "joinTrip" =>
                     localTrip'.currentPassengers = inflight[i].trip.currentPassengers + 1
          /\ called'.onUpdate = localTrip']_vars

\* a direct join has succeeded on a card that was empty
C7_Witness ==
    /\ cardEvent.op = "joinTripOk"
    /\ ~props.hasOnJoin
    /\ localTrip.currentPassengers = 1
    /\ called.onUpdate = localTrip

\* C8: when a join, update or delete call fails, the error's message is passed to
\* alert, the local trip is as it was when the call was started, onUpdate and
\* onDelete are not invoked (nor is onDelete scheduled), the animation flag is not
\* set, and isLoading is false afterwards.
C8_FailureLeavesCard ==
    [][(cardEvent'.op \in FailedOps /\ Len(inflight') = Len(inflight) - 1) =>
          /\ cardEvent'.error # "" /\ called'.alert = cardEvent'.error
          /\ localTrip' = localTrip
          /\ \A i \in 1..Len(inflight) : inflight[i].trip = localTrip
          /\ called'.onUpdate = NoTrip
          /\ onDeleteLog' = onDeleteLog /\ deleteTimers' = deleteTimers
          /\ isAnimating' = isAnimating /\ animTimers' = animTimers
          /\ ~isLoading']_vars

\* a delete has failed: its message was shown, the confirmation is still open and usable
C8_Witness ==
    /\ cardEvent.op = "deleteTripFailed"
    /\ called.alert = "Network Error"
    /\ isDeleteModalOpen
    /\ ~isLoading
    /\ onDeleteLog.count = 0

\* C9: on Update Trip, updateTrip is called with the card's trip id and the current
\* edit-form fields; when it succeeds, the local trip is exactly the trip the
\* server returned, onUpdate receives that trip, and the edit modal is closed.
C9_EditStoresServerTrip ==
    [][/\ Started("updateTrip") =>
              LET call == inflight'[Len(inflight')]
              IN  call.kind = "updateTrip" /\ call.id = localTrip.id /\ call.fields = editData
       /\ Completed("updateTripOk") =>
              /\ localTrip' = cardEvent'.returned
              /\ called'.onUpdate = cardEvent'.returned
              /\ ~isEditModalOpen']_vars

\* an edit to Goa succeeded and the server answered with Pune: the card shows the server's trip
C9_Witness ==
    /\ cardEvent.op = "updateTripOk"
    /\ editData.from_location = "Goa"
    /\ cardEvent.returned.from = "Pune"
    /\ localTrip = cardEvent.returned
    /\ ~isEditModalOpen

\* C10: onDelete(tripId) is invoked only by the timer of a deleteTrip that
\* succeeded, 500ms after that success, with the card's trip id, and at most once
\* per success; a deleteTrip that fails schedules nothing.
C10_OnDeleteAfterDelay ==
    [][/\ Len(deleteTimers') + onDeleteLog'.count <= apiLog'.deleted
       /\ onDeleteLog' # onDeleteLog =>
              /\ onDeleteLog'.count = onDeleteLog.count + 1
              /\ onDeleteLog'.id = localTrip.id
              /\ \E i \in 1..Len(deleteTimers) :
                     /\ deleteTimers[i].age >= DELETE_DELAY_MS
                     /\ deleteTimers[i].id = onDeleteLog'.id
                     /\ deleteTimers' = Without(deleteTimers, i)]_vars

\* the parent has been told of the deletion
C10_Witness ==
    /\ onDeleteLog.count = 1
    /\ onDeleteLog.id = localTrip.id
    /\ apiLog.deleted = 1
    /\ deleteTimers = <<>>

-----------------------------------------------------------------------------
(* Further properties of the SearchForm *)

\* a max-price input that is empty, not a number, or negative
IsEmptyNonNumericOrNegative(value) ==
    \/ value = <<>>
    \/ value[1] = "-"
    \/ value[1] \notin DecimalDigits

\* C11: the stored maxPrice is always a non-negative integer, 0 after an empty,
\* non-numeric or negative input; an onSearch call made by a submit carries
\* 10000 when the stored maxPrice is 0 and the stored value when it is positive,
\* never 0.
C11_MaxPriceCoercion ==
    /\ formData.maxPrice \in Nat
    /\ (lastEvent.op = "change" /\ lastInput.name = "maxPrice"
            /\ IsEmptyNonNumericOrNegative(lastInput.value))
           => formData.maxPrice = 0
    /\ (lastEvent.op = "submit" /\ lastEvent.searched = 1) =>
           /\ searchLog.data.maxPrice # 0
           /\ formData.maxPrice = 0 => searchLog.data.maxPrice = 10000
           /\ formData.maxPrice > 0 => searchLog.data.maxPrice = formData.maxPrice

\* -5 was typed as the price, stored as 0, and the submit sent 10000
C11_Witness ==
    /\ lastInput = [name |-> "maxPrice", value |-> <<"-", "5">>]
    /\ formData.maxPrice = 0
    /\ lastEvent = [op |-> "submit", searched |-> 1]
    /\ searchLog.via = "submit"
    /\ searchLog.data.maxPrice = 10000

\* C12: whenever a debounced onSearch call fires, it is the call of the keystroke
\* handled last: it carries the value that keystroke put into its field. A call
\* scheduled by an earlier keystroke does not fire after a later keystroke.
C12_OnlyLastKeystrokeFires ==
    (lastEvent.op = "debounce" /\ lastInput.name \in FieldNames)
        => searchLog.data[lastInput.name] = NewFieldValue(lastInput.name, lastInput.value)

-----------------------------------------------------------------------------
(* Further properties of the TripCard *)

\* C13, as stated: a join through onJoin that succeeds changes the local trip, and
\* in the direct path the occupancy is already incremented when joinTrip is started,
\* before the server has answered.
C13_JoinMutatesOnBothPaths ==
    [][/\ Completed("onJoinOk") => localTrip' # localTrip
       /\ Started("joinTrip") =>
              localTrip'.currentPassengers = localTrip.currentPassengers + 1]_vars

\* C13, amended: starting a join on either path leaves the local trip as it is; the
\* direct path increments the occupancy only when joinTrip has resolved; the
\* onJoin path never changes the local trip, whether onJoin resolves or rejects.
C13_JoinMutatesAfterSuccessDirectOnly ==
    [][/\ (Started("joinTrip") \/ Started("onJoin")) => localTrip' = localTrip
       /\ Completed("joinTripOk") =>
              localTrip'.currentPassengers = localTrip.currentPassengers + 1
       /\ (Completed("onJoinOk") \/ Completed("onJoinFailed") \/ Completed("joinTripFailed"))
              => localTrip' = localTrip]_vars

\* a join through onJoin has succeeded and the card still shows no passenger
C13_Witness ==
    /\ props.hasOnJoin
    /\ cardEvent.op = "onJoinOk"
    /\ isAnimating
    /\ localTrip.currentPassengers = 0

\* C14: the mutation controls being disabled by isLoading, at most one call of
\* joinTrip, onJoin, updateTrip and deleteTrip is in flight, and the loading flag
\* is set while it is.
C14_OneCallInFlight ==
    /\ Len(inflight) <= 1
    /\ inflight # <<>> => isLoading

\* a second call is in flight after the first one failed: the one call made since
C14_Witness ==
    /\ Len(inflight) = 1
    /\ apiLog.started = 2
    /\ inflight[1].kind = "updateTrip"
    /\ isLoading

\* C15: a step that takes the local occupancy from within the capacity to above it
\* is the arrival of an edit response, the local trip being the server's trip; a
\* join that succeeds leaves the occupancy within the capacity.
C15_JoinsKeepCapacity ==
    [][/\ (/\ localTrip.currentPassengers <= localTrip.maxPassengers
           /\ localTrip'.currentPassengers > localTrip'.maxPassengers)
              => (Completed("updateTripOk") /\ localTrip' = cardEvent'.returned)
       /\ Completed("joinTripOk") =>
              localTrip'.currentPassengers <= localTrip'.maxPassengers]_vars

\* the last seat was taken by a join (after an earlier call on the card), and the
\* join control is gone
C15_Witness ==
    /\ cardEvent.op = "joinTripOk"
    /\ apiLog.started = 2
    /\ localTrip.currentPassengers = localTrip.maxPassengers
    /\ isFull
    /\ ~JoinControlRendered

\* C16: whenever the edit modal is opened, the fields of the edit form are the
\* local trip's current values.
C16_EditFormPrefilled ==
    [][(~isEditModalOpen /\ isEditModalOpen') => editData' = EditDataOf(localTrip')]_vars

\* C17: whenever isAnimating is true, it is eventually false again.
C17_AnimationCleared == isAnimating ~> ~isAnimating

-----------------------------------------------------------------------------
(* Further properties of the SearchForm: the date, the pending search *)

\* C18: a submit whose departure date is the current local calendar day or a later
\* one does not record the past-date error, at every time of day and every
\* time-zone offset.
C18_TodayOrLaterAccepted ==
    (/\ lastEvent.op = "submit"
     /\ formData.departureDate # NoDate
     /\ formData.departureDate >= LocalDay(clock))
        => errors.departureDate # ErrPastDate

\* C19: when the handler that ran last is a submit or a reset, no debounced search
\* is pending, so that no onSearch call with an earlier keystroke's snapshot can
\* follow it.
C19_NothingPendingAfterSubmitOrReset ==
    lastEvent.op \in {"submit", "reset"} => AllTimers = <<>>

=============================================================================
